---- MODULE Spec2Model ----
(***************************************************************************)
(* Model of TJM_app.py, the curtain quotation calculator.                  *)
(*                                                                         *)
(* Numbers.  The program computes with Python floats; the model computes   *)
(* with exact fixed-point integers:                                        *)
(*   ancho, alto              hundredths of a metre   (2.0 m   = 200)       *)
(*   multiplicador            tenths                  (1.8     = 18)        *)
(*   parsed Parametro, paso   hundredths              (0.14    = 14)        *)
(*   pvp (unit prices)        whole pesos                                   *)
(*   cantidad, cantidad_total, precio_total, subtotal   units of 1/Q        *)
(*   Cantidad of a detail line                          hundredths          *)
(*   Precio, iva, total, subtotal of a curtain          whole pesos         *)
(* round() is Python 3's round-half-to-even; int() truncates toward zero.  *)
(***************************************************************************)
EXTENDS Integers, Sequences, FiniteSets, TLC

VARIABLES
    ss,                   \* st.session_state (one field per key)
    BOM_DICT,             \* module global loaded at line 237
    PRECIOS_MANO_DE_OBRA, \* module global loaded at line 236
    pantalla,             \* what the last script run rendered
    traza,                \* locals of calcular_y_mostrar_cotizacion when the last run called it
    llamada,              \* argument and result of a call of ceil_to_even
    carga                 \* the BOM sheet read by load_bom_from_excel and how the load ended

vars == <<ss, BOM_DICT, PRECIOS_MANO_DE_OBRA, pantalla, traza, llamada, carga>>

-----------------------------------------------------------------------------
\* Bounds of the model
MaxCortinas == 2
MaxCopias == 3
MaxCantidad == 2
MaxX == 9

\* Program constants (percent and hundredths of a metre)
IVA_PERCENT == 19
DISTANCIA_BOTON_DEF == 20
DISTANCIA_OJALES_DEF == 14

\* One unit of quantity or money is Q model units: ancho * multiplicador * factor
Q == 100 * 10 * 100

ALLOWED_RULES == {"MT_ANCHO_X_MULT", "UND_OJALES_PAR", "UND_BOTON_PAR", "FIJO"}

-----------------------------------------------------------------------------
\* Arithmetic of the Python runtime

\* Python round(n/d) for d > 0: nearest integer, ties to the even one
Round(n, d) ==
    LET f == n \div d
        r == n - f * d
    IN  IF 2 * r < d THEN f
        ELSE IF 2 * r > d THEN f + 1
        ELSE IF f % 2 = 0 THEN f ELSE f + 1

\* Python int(n/d) for d > 0: truncation toward zero
IntTrunc(n, d) ==
    IF n >= 0 THEN n \div d ELSE -((-n) \div d)

\* math.ceil of the rational x = <<numerator, denominator>>, denominator # 0
Ceil(x) ==
    LET n == IF x[2] > 0 THEN x[1] ELSE -x[1]
        d == IF x[2] > 0 THEN x[2] ELSE -x[2]
    IN  -((-n) \div d)

ceil_to_even_odd_down(x) ==
    LET n == Ceil(x)
    IN  IF n % 2 = 0 THEN n ELSE n - 1

ceil_to_even(x) ==
    LET n == Ceil(x)
    IN  IF n % 2 = 0 THEN n ELSE n + 1

\* float(val) of line 22 on the strings of the model: hundredths; a string
\* outside the domain raises ValueError
ParseFloat ==
    ("3" :> 300) @@ ("0.25" :> 25) @@ ("0.3" :> 30) @@ ("0" :> 0) @@
    ("-0.5" :> -50) @@ ("1.0" :> 100)

\* val.strip().lower() on the strings of the model
StripLower(val) ==
    CASE val = " " -> ""
      [] val = "NaN" -> "nan"
      [] val = " None" -> "none"
      [] OTHER -> val

\* _safe_float on a string
safe_float(val, default) ==
    IF StripLower(val) \in {"", "nan", "none"} THEN default
    ELSE IF val \in DOMAIN ParseFloat THEN ParseFloat[val]
    ELSE default

\* None where the program holds a number or None
NonePvp == 0 - 1

\* _safe_float on a number or None
safe_float_num(val, default) ==
    IF val = NonePvp THEN default ELSE val

\* item["Insumo"].strip().upper() on the names of the model
Upper(nombre) ==
    CASE nombre = "Tela 2" -> "TELA 2"
      [] nombre = "m.o. extra" -> "M.O. EXTRA"
      [] OTHER -> nombre

\* nombre.startswith("M.O") on the (upper-cased) names of the model
StartsWithMO(nombre) ==
    nombre \in {"M.O: ONDA", "M.O. EXTRA", "M.O"}

-----------------------------------------------------------------------------
\* Catalogs that every specification shares

\* tabla_disenos of load_designs_from_excel: design -> Multiplicador
TABLA_DISENOS == [ONDA |-> 20, DOBLE |-> 20]

\* tipos_cortina of load_designs_from_excel: type -> designs
TIPOS_CORTINA == [CLASICA |-> <<"ONDA", "DOBLE">>]

\* telas of load_telas_from_excel, the three levels flattened in load order
CATALOGO_TELAS ==
    << [tipo |-> "BLACKOUT", referencia |-> "B1", color |-> "GRIS", pvp |-> 7],
       [tipo |-> "VELO", referencia |-> "V1", color |-> "BLANCO", pvp |-> 4] >>

\* catalog of load_catalog_from_excel; opciones in (ref, color) order
CATALOGO_INSUMOS ==
    [OJALES |-> [unidad |-> "UND",
                 opciones |-> << [ref |-> "R1", color |-> "NIQUEL", pvp |-> 2],
                                 [ref |-> "R1", color |-> "ORO", pvp |-> 3] >>]]

\* One stored BOM item (Observaciones plays no part in any computation)
Item(insumo, unidad, regla, param, depende) ==
    [Insumo |-> insumo, Unidad |-> unidad, ReglaCantidad |-> regla,
     Parametro |-> param, DependeDeSeleccion |-> depende]

\* precios_mo key f"M.O: {dis}" / candidate f"M.O. {dis}"
MOKey(prefijo, dis) == <<prefijo, dis>>

\* str(x).strip() on the cell values of the model
Strip(x) ==
    CASE x = " RIEL" -> "RIEL"
      [] x = " fijo " -> "fijo"
      [] OTHER -> x

\* str(x).strip().upper() on the cell values of the model
StripUpper(x) ==
    CASE x = " fijo " -> "FIJO"
      [] x = "mt_ancho_x_mult" -> "MT_ANCHO_X_MULT"
      [] x = "por_alto" -> "POR_ALTO"
      [] x = "nan" -> "NAN"
      [] x = "mt" -> "MT"
      [] x = "si" -> "SI"
      [] OTHER -> x

\* One row of the BOM sheet, as read (column Observaciones left out)
Fila(diseno, insumo, unidad, regla, param, depende) ==
    [Diseno |-> diseno, Insumo |-> insumo, Unidad |-> unidad, ReglaCantidad |-> regla,
     Parametro |-> param, DependeDeSeleccion |-> depende]

\* Line 107: the rules of the sheet that are not allowed
ReglasInvalidas(filas) ==
    {StripUpper(filas[i].ReglaCantidad) : i \in DOMAIN filas} \ ALLOWED_RULES

\* Lines 114-118: param_norm
ParamNorm(p_raw) ==
    IF StripLower(p_raw) \in {"", "nan", "none"} THEN "" ELSE Strip(p_raw)

\* Lines 120-127: the item stored for a row
ItemDeFila(fila) ==
    Item(Strip(fila.Insumo), StripUpper(fila.Unidad), StripUpper(fila.ReglaCantidad),
         ParamNorm(fila.Parametro), StripUpper(fila.DependeDeSeleccion))

\* Lines 112-129: the rows, from row k on, join the list of their design
RECURSIVE CargarFilas(_, _, _)
CargarFilas(filas, k, bom_dict) ==
    IF k > Len(filas) THEN bom_dict
    ELSE CargarFilas(filas, k + 1,
             IF Strip(filas[k].Diseno) \in DOMAIN bom_dict
             THEN [bom_dict EXCEPT ![Strip(filas[k].Diseno)] = Append(@, ItemDeFila(filas[k]))]
             ELSE (Strip(filas[k].Diseno) :> <<ItemDeFila(filas[k])>>) @@ bom_dict)

\* Lines 95-130 on a sheet that exists and has the required columns: st.stop()
\* at line 110 ends the script and no bom_dict is returned
load_bom_sin_validar(filas) ==
    [estado |-> "ok", bom_dict |-> CargarFilas(filas, 1, <<>>)]

load_bom_from_excel(filas) ==
    IF ReglasInvalidas(filas) # {}
    THEN [estado |-> "stop", bom_dict |-> <<>>]
    ELSE [estado |-> "ok", bom_dict |-> CargarFilas(filas, 1, <<>>)]

-----------------------------------------------------------------------------
\* calcular_y_mostrar_cotizacion

\* Lines 729-742: the per-unit quantity of one BOM item, in 1/Q.
\* estado is "ok", "ZeroDivisionError" (float division by zero) or "stop".
ReglaCantidad_fijo_geom(regla, param, ancho, multiplicador) ==
    IF regla = "MT_ANCHO_X_MULT"
    THEN [estado |-> "ok", cantidad |-> ancho * multiplicador * safe_float(param, 100)]
    ELSE IF regla \in {"UND_OJALES_PAR", "UND_BOTON_PAR"}
    THEN LET paso == safe_float(param, IF regla = "UND_OJALES_PAR"
                                       THEN DISTANCIA_OJALES_DEF
                                       ELSE DISTANCIA_BOTON_DEF)
         IN  IF paso = 0 THEN [estado |-> "ZeroDivisionError", cantidad |-> 0]
             ELSE [estado |-> "ok",
                   cantidad |-> Q * ceil_to_even(<<ancho * multiplicador, 10 * paso>>)]
    ELSE IF regla = "FIJO"
    THEN [estado |-> "ok", cantidad |-> ancho * multiplicador * safe_float(param, 0)]
    ELSE [estado |-> "stop", cantidad |-> 0]

ReglaCantidad_paso_def(regla, param, ancho, multiplicador) ==
    IF regla = "MT_ANCHO_X_MULT"
    THEN [estado |-> "ok", cantidad |-> ancho * multiplicador * safe_float(param, 100)]
    ELSE IF regla \in {"UND_OJALES_PAR", "UND_BOTON_PAR"}
    THEN LET paso == safe_float(param, DISTANCIA_BOTON_DEF)
         IN  IF paso = 0 THEN [estado |-> "ZeroDivisionError", cantidad |-> 0]
             ELSE [estado |-> "ok",
                   cantidad |-> Q * ceil_to_even(<<ancho * multiplicador, 10 * paso>>)]
    ELSE IF regla = "FIJO"
    THEN [estado |-> "ok", cantidad |-> 1000 * safe_float(param, 0)]
    ELSE [estado |-> "stop", cantidad |-> 0]

ReglaCantidad(regla, param, ancho, multiplicador) ==
    IF regla = "MT_ANCHO_X_MULT"
    THEN [estado |-> "ok", cantidad |-> ancho * multiplicador * safe_float(param, 100)]
    ELSE IF regla \in {"UND_OJALES_PAR", "UND_BOTON_PAR"}
    THEN LET paso == safe_float(param, IF regla = "UND_OJALES_PAR"
                                       THEN DISTANCIA_OJALES_DEF
                                       ELSE DISTANCIA_BOTON_DEF)
         IN  IF paso = 0 THEN [estado |-> "ZeroDivisionError", cantidad |-> 0]
             ELSE [estado |-> "ok",
                   cantidad |-> Q * ceil_to_even(<<ancho * multiplicador, 10 * paso>>)]
    ELSE IF regla = "FIJO"
    THEN [estado |-> "ok", cantidad |-> 1000 * safe_float(param, 0)]
    ELSE [estado |-> "stop", cantidad |-> 0]

\* Lines 715-718: the measurements the calculation reads from the session
Ancho(s) == s.ancho

Multiplicador_de_tabla(s) == TABLA_DISENOS[s.diseno_sel]

Multiplicador(s) == s.multiplicador

NumCortinas(s) == s.cantidad

\* st.session_state.get("ref_tela_sel_k", "") and get("color_tela_sel_k", "")
RefTela(s, k) ==
    IF s.tela_sel[k] = 0 THEN "" ELSE CATALOGO_TELAS[s.tela_sel[k]].referencia

ColorTela(s, k) ==
    IF s.tela_sel[k] = 0 THEN "" ELSE CATALOGO_TELAS[s.tela_sel[k]].color

TipoTela(s, k) ==
    IF s.tela_sel[k] = 0 THEN "" ELSE CATALOGO_TELAS[s.tela_sel[k]].tipo

\* Lines 761: sel, the selection recorded for the item, <<>> when there is none
Sel(s, item) ==
    IF item.Insumo \in DOMAIN s.insumos_seleccion
    THEN <<s.insumos_seleccion[item.Insumo]>> ELSE <<>>

Pvp_sin_seleccion_uno(s, item) ==
    IF Upper(item.Insumo) = "TELA 1" THEN safe_float_num(s.pvp_tela[1], 0)
    ELSE IF Upper(item.Insumo) = "TELA 2" THEN safe_float_num(s.pvp_tela[2], 0)
    ELSE IF Sel(s, item) = <<>> THEN 1 ELSE safe_float_num(Sel(s, item)[1].pvp, 0)

\* Lines 746-764: pvp, uni and nombre_mostrado of an item that is not labor
Pvp(s, item) ==
    IF Upper(item.Insumo) = "TELA 1" THEN safe_float_num(s.pvp_tela[1], 0)
    ELSE IF Upper(item.Insumo) = "TELA 2" THEN safe_float_num(s.pvp_tela[2], 0)
    ELSE IF Sel(s, item) = <<>> THEN 0 ELSE safe_float_num(Sel(s, item)[1].pvp, 0)

Uni(s, item) ==
    IF Upper(item.Insumo) \in {"TELA 1", "TELA 2"} THEN "MT"
    ELSE IF Sel(s, item) = <<>> THEN item.Unidad ELSE Sel(s, item)[1].unidad

NombreMostrado(s, item) ==
    IF Upper(item.Insumo) = "TELA 1" THEN <<"TELA 1", RefTela(s, 1), ColorTela(s, 1)>>
    ELSE IF Upper(item.Insumo) = "TELA 2" THEN <<"TELA 2", RefTela(s, 2), ColorTela(s, 2)>>
    ELSE <<item.Insumo>>

Linea_dos_decimales(nombre_mostrado, uni, pvp, ct) ==
    [precio_total |-> pvp * ct,
     linea |-> [Insumo |-> nombre_mostrado,
                Unidad |-> uni,
                Cantidad |-> Round(ct, Q \div 100),
                PVP_Unit |-> pvp,
                Precio |-> Round(pvp * ct, Q)]]

\* Lines 766-775: precio_total (1/Q) and the detail line, ct being cantidad_total
Linea(nombre_mostrado, uni, pvp, ct) ==
    [precio_total |-> pvp * ct,
     linea |-> [Insumo |-> nombre_mostrado,
                Unidad |-> uni,
                Cantidad |-> IF uni # "UND" THEN Round(ct, Q \div 100)
                             ELSE 100 * Round(ct, Q),
                PVP_Unit |-> pvp,
                Precio |-> Round(pvp * ct, Q)]]

\* Lines 767-775: the line joins detalle_insumos and its unrounded price the subtotal
Acumular(acc, paso, l) ==
    [acc EXCEPT !.detalle = Append(@, l.linea),
                !.subtotal = @ + l.precio_total,
                !.pasos = Append(@, paso @@ [omitido |-> FALSE,
                                             precio_total |-> l.precio_total])]

\* Lines 744-775 of one iteration whose rule gave r; labor items end at the
\* continue of line 759
Resolver_mo_pasa(s, item, acc, r) ==
    IF r.estado # "ok" THEN [acc EXCEPT !.estado = r.estado]
    ELSE Acumular(acc,
             [item |-> item, cantidad |-> r.cantidad,
              cantidad_total |-> r.cantidad * NumCortinas(s)],
             Linea(NombreMostrado(s, item), Uni(s, item), Pvp(s, item),
                   r.cantidad * NumCortinas(s)))

Resolver(s, item, acc, r) ==
    IF r.estado # "ok" THEN [acc EXCEPT !.estado = r.estado]
    ELSE IF /\ Upper(item.Insumo) \notin {"TELA 1", "TELA 2"}
            /\ StartsWithMO(Upper(item.Insumo))
    THEN [acc EXCEPT !.pasos = Append(@,
             [item |-> item, cantidad |-> r.cantidad,
              cantidad_total |-> r.cantidad * NumCortinas(s),
              omitido |-> TRUE, precio_total |-> 0])]
    ELSE Acumular(acc,
             [item |-> item, cantidad |-> r.cantidad,
              cantidad_total |-> r.cantidad * NumCortinas(s)],
             Linea(NombreMostrado(s, item), Uni(s, item), Pvp(s, item),
                   r.cantidad * NumCortinas(s)))

\* Lines 723-775: the loop over the BOM items, from item k on.  acc carries
\* detalle_insumos, subtotal (1/Q) and, in pasos, each iteration's locals; an
\* exception or st.stop() ends the loop with its estado.
RECURSIVE BucleItems(_, _, _, _)
BucleItems(s, items, k, acc) ==
    IF k > Len(items) \/ acc.estado # "ok" THEN acc
    ELSE BucleItems(s, items, k + 1,
             Resolver(s, items[k], acc,
                 ReglaCantidad(items[k].ReglaCantidad, items[k].Parametro,
                               Ancho(s), Multiplicador(s))))

\* Lines 777-782: the first candidate key found in PRECIOS_MANO_DE_OBRA
MoKeys(s, mo) ==
    SelectSeq(<<MOKey("M.O:", s.diseno_sel), MOKey("M.O.", s.diseno_sel)>>,
              LAMBDA k : k \in DOMAIN mo)

\* Lines 784-794: the labor line; cant_mo in thousandths
LineaMo(mo_key, mo_info, cant_mo) ==
    [hay |-> TRUE, cant_mo |-> cant_mo,
     precio_mo |-> Round(cant_mo * safe_float_num(mo_info.pvp, 0), 1000),
     linea |-> << [Insumo |-> mo_key, Unidad |-> mo_info.unidad,
                   Cantidad |-> Round(cant_mo, 10),
                   PVP_Unit |-> safe_float_num(mo_info.pvp, 0),
                   Precio |-> Round(cant_mo * safe_float_num(mo_info.pvp, 0), 1000)] >>]

\* Lines 777-794
ManoDeObra_sin_umbral(s, mo) ==
    IF MoKeys(s, mo) = <<>>
    THEN [hay |-> FALSE, cant_mo |-> 0, precio_mo |-> 0, linea |-> <<>>]
    ELSE LineaMo(MoKeys(s, mo)[1], mo[MoKeys(s, mo)[1]],
                 Ancho(s) * Multiplicador(s) * NumCortinas(s))

ManoDeObra(s, mo) ==
    IF MoKeys(s, mo) = <<>> \/ ~(safe_float_num(mo[MoKeys(s, mo)[1]].pvp, 0) > 0)
    THEN [hay |-> FALSE, cant_mo |-> 0, precio_mo |-> 0, linea |-> <<>>]
    ELSE LineaMo(MoKeys(s, mo)[1], mo[MoKeys(s, mo)[1]],
                 Ancho(s) * Multiplicador(s) * NumCortinas(s))

\* Lines 796-798: iva, total and subtotal_sin_iva from the subtotal (1/Q)
Totales_neto_aparte(subtotal) ==
    [subtotal |-> Round(subtotal * (100 - IVA_PERCENT), 100 * Q),
     iva |-> Round(subtotal * IVA_PERCENT, 100 * Q),
     total |-> Round(subtotal, Q)]

Totales(subtotal) ==
    [subtotal |-> Round(subtotal, Q) - Round(subtotal * IVA_PERCENT, 100 * Q),
     iva |-> Round(subtotal * IVA_PERCENT, 100 * Q),
     total |-> Round(subtotal, Q)]

\* Lines 800-818: tela_info; tela2 is None (<<>>) when pvp_tela_2 is None
TelaInfo(s, k) ==
    [tipo |-> TipoTela(s, k), referencia |-> RefTela(s, k), color |-> ColorTela(s, k),
     pvp |-> safe_float_num(s.pvp_tela[k], 0), modo_confeccion |-> s.modo_conf[k]]

\* Lines 822-829: the curtain stored in cortina_calculada
Cortina(s, detalle_insumos, t) ==
    [tipo |-> s.tipo_cortina_sel, diseno |-> s.diseno_sel,
     multiplicador |-> Multiplicador(s), ancho |-> Ancho(s), alto |-> s.alto,
     cantidad |-> NumCortinas(s),
     telas |-> [tela1 |-> <<TelaInfo(s, 1)>>,
                tela2 |-> IF s.pvp_tela[2] # NonePvp THEN <<TelaInfo(s, 2)>> ELSE <<>>],
     insumos_seleccion |-> s.insumos_seleccion,
     detalle_insumos |-> detalle_insumos,
     subtotal |-> t.subtotal, iva |-> t.iva, total |-> t.total]

\* The locals of a run, b being the loop's result and m the labor line's
Locales(s, items, mo, b, m) ==
    [estado |-> b.estado,
     diseno |-> s.diseno_sel, ancho |-> s.ancho, multiplicador |-> s.multiplicador,
     cantidad |-> s.cantidad, items |-> items, mo_tabla |-> mo,
     pasos |-> b.pasos, mo |-> m, subtotal |-> b.subtotal + Q * m.precio_mo,
     cortina |-> Cortina(s, b.detalle \o m.linea, Totales(b.subtotal + Q * m.precio_mo))]

\* Line 723: BOM_DICT.get(diseno, [])
ItemsDe(bom, diseno) ==
    IF diseno \in DOMAIN bom THEN bom[diseno] ELSE <<>>

\* The whole function: the locals it computes and the curtain it builds
Calculo(s, bom, mo) ==
    Locales(s, ItemsDe(bom, s.diseno_sel), mo,
            BucleItems(s, ItemsDe(bom, s.diseno_sel), 1,
                [estado |-> "ok", detalle |-> <<>>, subtotal |-> 0, pasos |-> <<>>]),
            ManoDeObra(s, mo))

\* Line 822: the assignment, which an exception or st.stop() never reaches
Guardar(s, c) ==
    IF c.estado = "ok" THEN [s EXCEPT !.cortina_calculada = <<c.cortina>>] ELSE s

calcular_y_mostrar_cotizacion(s, bom, mo) ==
    Guardar(s, Calculo(s, bom, mo))

-----------------------------------------------------------------------------
\* Session state and the script runs of the pages

NoneIdx == 0 - 1
NoneStr == "None"

\* init_state(), before any page has run.  A key a widget owns is absent
\* (0, NoneStr) until the widget is rendered and again after a run that
\* does not render it.  sel_alias is the list position whose insumos_seleccion
\* dict is the very object held by st.session_state.insumos_seleccion
\* (NoneIdx: the session's dict is shared with no listed curtain).
init_state ==
    [pagina_actual |-> "cotizador",
     cortinas_resumen |-> <<>>,
     cortina_calculada |-> <<>>,
     last_diseno_sel |-> NoneStr,
     cortina_a_editar |-> <<>>,
     editando_index |-> NoneIdx,
     seleccion_resumen |-> NoneIdx,
     ancho |-> 0, alto |-> 0, cantidad |-> 0, multiplicador |-> 0,
     tipo_cortina_sel |-> NoneStr, diseno_sel |-> NoneStr,
     tela_sel |-> <<0, 0>>, tela2_es_widget |-> FALSE,
     pvp_tela |-> <<NonePvp, NonePvp>>,
     modo_conf |-> <<"", "">>,
     insumo_w |-> [n \in DOMAIN CATALOGO_INSUMOS |-> 0],
     insumos_seleccion |-> <<>>,
     sel_alias |-> NoneIdx]

\* Position in CATALOGO_TELAS of a recorded fabric; 0 when it names none
IndexTela(t) ==
    LET hits == {i \in DOMAIN CATALOGO_TELAS :
                    /\ CATALOGO_TELAS[i].tipo = t.tipo
                    /\ CATALOGO_TELAS[i].referencia = t.referencia
                    /\ CATALOGO_TELAS[i].color = t.color}
    IN  IF hits = {} THEN 0 ELSE CHOOSE i \in hits : \A j \in hits : i <= j

\* Lines 506-530: the form is filled from cortina_a_editar, once
Prefill(s) ==
    IF s.cortina_a_editar = <<>> THEN s
    ELSE
    LET c == s.cortina_a_editar[1]
        t1 == c.telas.tela1[1]
        con2 == c.telas.tela2 # <<>>
    IN  [s EXCEPT
            !.ancho = c.ancho, !.alto = c.alto, !.cantidad = c.cantidad,
            !.multiplicador = c.multiplicador,
            !.tipo_cortina_sel = c.tipo, !.diseno_sel = c.diseno,
            !.tela_sel = << IndexTela(t1),
                            IF con2 THEN IndexTela(c.telas.tela2[1]) ELSE @[2] >>,
            !.tela2_es_widget = IF con2 THEN FALSE ELSE @,
            !.pvp_tela = << t1.pvp, IF con2 THEN c.telas.tela2[1].pvp ELSE @[2] >>,
            !.insumos_seleccion = c.insumos_seleccion,
            !.sel_alias = s.editando_index,
            !.cortina_a_editar = <<>>]

\* Lines 533-566: the measurement and design widgets give an absent key its
\* default; a change of design empties insumos_seleccion (a new dict)
WidgetsForma(s) ==
    LET tipo == IF s.tipo_cortina_sel \in DOMAIN TIPOS_CORTINA
                THEN s.tipo_cortina_sel ELSE "CLASICA"
        disponibles == TIPOS_CORTINA[tipo]
        dis == IF \E i \in DOMAIN disponibles : disponibles[i] = s.diseno_sel
               THEN s.diseno_sel ELSE disponibles[1]
        cambia == dis # s.last_diseno_sel
    IN  [s EXCEPT
            !.ancho = IF @ = 0 THEN 200 ELSE @,
            !.alto = IF @ = 0 THEN 200 ELSE @,
            !.cantidad = IF @ = 0 THEN 1 ELSE @,
            !.tipo_cortina_sel = tipo,
            !.diseno_sel = dis,
            !.insumos_seleccion = IF cambia THEN <<>> ELSE @,
            !.sel_alias = IF cambia THEN NoneIdx ELSE @,
            !.last_diseno_sel = dis,
            !.multiplicador = IF @ = 0 THEN TABLA_DISENOS[dis] ELSE @]

\* Lines 637-638
UsaTela2(bom, diseno) ==
    \E i \in DOMAIN ItemsDe(bom, diseno) : Upper(ItemsDe(bom, diseno)[i].Insumo) = "TELA 2"

\* Lines 574-643: ui_tela("1"), and ui_tela("2") when the design uses TELA 2;
\* the widgets of a slot that is not rendered lose their keys
UiTelas(s, bom) ==
    LET i1 == IF s.tela_sel[1] = 0 THEN 1 ELSE s.tela_sel[1]
        i2 == IF s.tela_sel[2] = 0 THEN 1 ELSE s.tela_sel[2]
    IN  IF UsaTela2(bom, s.diseno_sel)
        THEN [s EXCEPT !.tela_sel = <<i1, i2>>, !.tela2_es_widget = TRUE,
                       !.pvp_tela = <<CATALOGO_TELAS[i1].pvp, CATALOGO_TELAS[i2].pvp>>,
                       !.modo_conf = <<"Entera", "Entera">>]
        ELSE [s EXCEPT !.tela_sel = <<i1, IF s.tela2_es_widget THEN 0 ELSE @[2]>>,
                       !.tela2_es_widget = FALSE,
                       !.pvp_tela = <<CATALOGO_TELAS[i1].pvp, @[2]>>,
                       !.modo_conf = <<"Entera", "">>]

\* Line 709: insumos_seleccion[nombre] = v stores into the dict object, which
\* the curtain at sel_alias holds too
PonerSeleccion(s, nombre, v) ==
    LET d == (nombre :> v) @@ s.insumos_seleccion
    IN  IF s.sel_alias = NoneIdx
        THEN [s EXCEPT !.insumos_seleccion = d]
        ELSE [s EXCEPT !.insumos_seleccion = d,
                       !.cortinas_resumen[s.sel_alias + 1].insumos_seleccion = d]

\* Lines 685-709 for one rendered item: w is the option its two selectboxes show
Seleccionado(s, nombre, w) ==
    PonerSeleccion([s EXCEPT !.insumo_w[nombre] = w], nombre,
        [ref |-> CATALOGO_INSUMOS[nombre].opciones[w].ref,
         color |-> CATALOGO_INSUMOS[nombre].opciones[w].color,
         pvp |-> CATALOGO_INSUMOS[nombre].opciones[w].pvp,
         unidad |-> CATALOGO_INSUMOS[nombre].unidad])

\* Lines 674-711: mostrar_insumos_bom, from item k of the design's BOM on
RECURSIVE MostrarItems(_, _, _)
MostrarItems(s, items, k) ==
    IF k > Len(items) THEN s
    ELSE IF /\ items[k].DependeDeSeleccion = "SI"
            /\ items[k].Insumo \in DOMAIN CATALOGO_INSUMOS
    THEN MostrarItems(
             Seleccionado(s, items[k].Insumo,
                 IF s.insumo_w[items[k].Insumo] = 0 THEN 1
                 ELSE s.insumo_w[items[k].Insumo]),
             items, k + 1)
    ELSE MostrarItems(s, items, k + 1)

\* The names whose selectboxes a run renders
Mostrados(items) ==
    {items[i].Insumo : i \in {j \in DOMAIN items : items[j].DependeDeSeleccion = "SI"}}

mostrar_insumos_bom(s, bom) ==
    MostrarItems(
        [s EXCEPT !.insumo_w = [n \in DOMAIN CATALOGO_INSUMOS |->
            IF n \in Mostrados(ItemsDe(bom, s.diseno_sel)) THEN @[n] ELSE 0]],
        ItemsDe(bom, s.diseno_sel), 1)

anadir_al_frente(s) ==
    IF s.cortina_calculada = <<>> THEN s
    ELSE IF s.editando_index # NoneIdx
    THEN [s EXCEPT !.cortinas_resumen[s.editando_index + 1] = s.cortina_calculada[1],
                   !.sel_alias = IF @ = s.editando_index THEN NoneIdx ELSE @,
                   !.editando_index = NoneIdx,
                   !.cortina_a_editar = <<>>,
                   !.cortina_calculada = <<>>]
    ELSE [s EXCEPT !.cortinas_resumen = <<s.cortina_calculada[1]>> \o @,
                   !.cortina_calculada = <<>>]

anadir_reemplaza_primera(s) ==
    IF s.cortina_calculada = <<>> THEN s
    ELSE IF s.editando_index # NoneIdx
    THEN [s EXCEPT !.cortinas_resumen[1] = s.cortina_calculada[1],
                   !.sel_alias = IF @ = s.editando_index THEN NoneIdx ELSE @,
                   !.editando_index = NoneIdx,
                   !.cortina_a_editar = <<>>,
                   !.cortina_calculada = <<>>]
    ELSE [s EXCEPT !.cortinas_resumen = Append(@, s.cortina_calculada[1]),
                   !.cortina_calculada = <<>>]

\* Lines 257-268
anadir_a_resumen(s) ==
    IF s.cortina_calculada = <<>> THEN s
    ELSE IF s.editando_index # NoneIdx
    THEN [s EXCEPT !.cortinas_resumen[s.editando_index + 1] = s.cortina_calculada[1],
                   !.sel_alias = IF @ = s.editando_index THEN NoneIdx ELSE @,
                   !.editando_index = NoneIdx,
                   !.cortina_a_editar = <<>>,
                   !.cortina_calculada = <<>>]
    ELSE [s EXCEPT !.cortinas_resumen = Append(@, s.cortina_calculada[1]),
                   !.cortina_calculada = <<>>]

duplicar_cortina_la_primera(s, index) ==
    [s EXCEPT !.cortinas_resumen = Append(@, s.cortinas_resumen[1])]

\* Lines 270-274: the deep copy is a curtain of its own
duplicar_cortina(s, index) ==
    [s EXCEPT !.cortinas_resumen = Append(@, s.cortinas_resumen[index + 1])]

\* Lines 506-647: the form as rendered, before the buttons are looked at
FormaLista(s, bom) ==
    mostrar_insumos_bom(UiTelas(WidgetsForma(Prefill(s)), bom), bom)

\* Lines 649-671: the button pressed in this run ("", "calcular" or "anadir")
Botones(s, bom, mo, boton) ==
    IF boton = "calcular" THEN calcular_y_mostrar_cotizacion(s, bom, mo)
    ELSE IF boton = "anadir" /\ s.cortina_calculada # <<>> THEN anadir_a_resumen(s)
    ELSE s

\* Lines 503-671: one run of pantalla_cotizador
pantalla_cotizador(s, bom, mo, boton) ==
    Botones(FormaLista(s, bom), bom, mo, boton)

\* A run of a page other than the form: the form's widgets are not rendered
\* and their keys leave the session
SinForma(s) ==
    [s EXCEPT !.ancho = 0, !.alto = 0, !.cantidad = 0, !.multiplicador = 0,
              !.tipo_cortina_sel = NoneStr, !.diseno_sel = NoneStr,
              !.tela_sel = <<0, IF s.tela2_es_widget THEN 0 ELSE @[2]>>,
              !.tela2_es_widget = FALSE,
              !.modo_conf = <<"", "">>,
              !.insumo_w = [n \in DOMAIN CATALOGO_INSUMOS |-> 0]]

\* sum(c[campo] for c in cortinas): Python's left fold from 0
RECURSIVE Suma(_, _, _)
Suma(cortinas, campo, k) ==
    IF k > Len(cortinas) THEN 0
    ELSE cortinas[k][campo] + Suma(cortinas, campo, k + 1)

\* Lines 470-478: the totals printed in the PDF
TotalesPdf(cortinas) ==
    [subtotal |-> IntTrunc(Suma(cortinas, "subtotal", 1), 1),
     iva |-> IntTrunc(Suma(cortinas, "iva", 1), 1),
     total |-> IntTrunc(Suma(cortinas, "total", 1), 1)]

\* Lines 922-924 and 937-940: the three metrics under the summary
TotalesResumen_redondeo(cortinas) ==
    LET neto == Suma(cortinas, "subtotal", 1)
        iva == Round(neto * IVA_PERCENT, 100)
    IN  [subtotal |-> neto, iva |-> iva, total |-> neto + iva]

TotalesResumen(cortinas) ==
    LET total_final == Suma(cortinas, "total", 1)
    IN  [subtotal |-> IntTrunc(total_final * (100 - IVA_PERCENT), 100),
         iva |-> IntTrunc(total_final * IVA_PERCENT, 100),
         total |-> IntTrunc(total_final, 1)]

\* What a run leaves on the screen.  The form page shows the metrics of the
\* pending calculation (lines 664-667), the summary its metrics and, with a
\* non-empty list, the PDF of line 928.
Pantalla(s) ==
    IF s.pagina_actual = "resumen"
    THEN [pagina |-> "resumen",
          metricas |-> <<TotalesResumen(s.cortinas_resumen)>>,
          pdf |-> IF s.cortinas_resumen # <<>>
                  THEN <<TotalesPdf(s.cortinas_resumen)>> ELSE <<>>]
    ELSE IF s.pagina_actual \notin {"datos", "gestion_datos"} /\ s.cortina_calculada # <<>>
    THEN [pagina |-> s.pagina_actual,
          metricas |-> << [subtotal |-> IntTrunc(s.cortina_calculada[1].subtotal, 1),
                           iva |-> IntTrunc(s.cortina_calculada[1].iva, 1),
                           total |-> IntTrunc(s.cortina_calculada[1].total, 1)] >>,
          pdf |-> <<>>]
    ELSE [pagina |-> s.pagina_actual, metricas |-> <<>>, pdf |-> <<>>]

\* Lines 1016-1028: main() after the sidebar, on session s
main(s, bom, mo, boton) ==
    IF s.pagina_actual \in {"datos", "resumen", "gestion_datos"}
    THEN SinForma(s)
    ELSE pantalla_cotizador(s, bom, mo, boton)

-----------------------------------------------------------------------------
\* The catalogs of the session specification

BOM_BASE ==
    [ONDA |-> << Item("TELA 1", "MT", "MT_ANCHO_X_MULT", "", "NO"),
                 Item("OJALES", "UND", "UND_OJALES_PAR", "", "SI"),
                 Item("M.O: ONDA", "MT", "MT_ANCHO_X_MULT", "", "NO") >>,
     DOBLE |-> << Item("TELA 1", "MT", "MT_ANCHO_X_MULT", "", "NO"),
                  Item("Tela 2", "MT", "MT_ANCHO_X_MULT", "0.25", "NO"),
                  Item("RIEL", "MT", "FIJO", "3", "SI") >>]

\* precios_mo of load_designs_from_excel for PVP M.O. 5 and 0
MO_BASE ==
    (MOKey("M.O:", "ONDA") :> [unidad |-> "MT", pvp |-> 5]) @@
    (MOKey("M.O:", "DOBLE") :> [unidad |-> "MT", pvp |-> 0])

\* Values the user gives the form's widgets
Anchos == {125, 200}
Multiplicadores == {15, 20}
Cantidades == 1..MaxCantidad

SinTraza == [estado |-> "none"]
SinLlamada == [x |-> <<0, 1>>, r |-> <<>>]
SinCarga == [estado |-> "none"]

\* The session after the first run of main() on the loaded catalogs
Init ==
    /\ BOM_DICT = BOM_BASE
    /\ PRECIOS_MANO_DE_OBRA = MO_BASE
    /\ ss = main(init_state, BOM_DICT, PRECIOS_MANO_DE_OBRA, "")
    /\ pantalla = Pantalla(ss)
    /\ traza = SinTraza
    /\ llamada = SinLlamada
    /\ carga = SinCarga

EnForma == ss.pagina_actual \notin {"datos", "resumen", "gestion_datos"}

\* One script run on session s, with the button pressed in it
Correr(s, boton) ==
    /\ ss' = main(s, BOM_DICT, PRECIOS_MANO_DE_OBRA, boton)
    /\ pantalla' = Pantalla(ss')
    /\ UNCHANGED <<BOM_DICT, PRECIOS_MANO_DE_OBRA, llamada, carga>>

\* The user edits a widget of the form (lines 533-535, 557, 566, 591-615, 696-704)
CambiarAncho ==
    /\ EnForma
    /\ \E a \in Anchos \ {ss.ancho} : Correr([ss EXCEPT !.ancho = a], "")
    /\ traza' = SinTraza

CambiarCantidad ==
    /\ EnForma
    /\ \E n \in Cantidades \ {ss.cantidad} : Correr([ss EXCEPT !.cantidad = n], "")
    /\ traza' = SinTraza

CambiarMultiplicador ==
    /\ EnForma
    /\ \E m \in Multiplicadores \ {ss.multiplicador} :
           Correr([ss EXCEPT !.multiplicador = m], "")
    /\ traza' = SinTraza

\* The Multiplicador widget is declared with the design's value: after a change
\* of design it shows either the value it had or the new design's
CambiarDiseno ==
    /\ EnForma
    /\ \E i \in DOMAIN TIPOS_CORTINA[ss.tipo_cortina_sel] :
       LET d == TIPOS_CORTINA[ss.tipo_cortina_sel][i]
       IN  /\ d # ss.diseno_sel
           /\ \E m \in {ss.multiplicador, TABLA_DISENOS[d]} :
                  Correr([ss EXCEPT !.diseno_sel = d, !.multiplicador = m], "")
    /\ traza' = SinTraza

CambiarTela ==
    /\ EnForma
    /\ \E k \in 1..2 : \E i \in DOMAIN CATALOGO_TELAS :
           /\ k = 2 => UsaTela2(BOM_DICT, ss.diseno_sel)
           /\ i # ss.tela_sel[k]
           /\ Correr([ss EXCEPT !.tela_sel[k] = i], "")
    /\ traza' = SinTraza

CambiarInsumo ==
    /\ EnForma
    /\ \E n \in DOMAIN CATALOGO_INSUMOS : \E i \in DOMAIN CATALOGO_INSUMOS[n].opciones :
           /\ ss.insumo_w[n] # 0
           /\ i # ss.insumo_w[n]
           /\ Correr([ss EXCEPT !.insumo_w[n] = i], "")
    /\ traza' = SinTraza

\* Line 649-650: "Calcular Cotizacion"
Calcular ==
    /\ EnForma
    /\ Correr(ss, "calcular")
    /\ traza' = Calculo(FormaLista(ss, BOM_DICT), BOM_DICT, PRECIOS_MANO_DE_OBRA)

\* Lines 670-671: the button is there only with a calculated curtain
Anadir ==
    /\ EnForma
    /\ ss.cortina_calculada # <<>>
    /\ ss.editando_index = NoneIdx => Len(ss.cortinas_resumen) < MaxCortinas
    /\ Correr(ss, "anadir")
    /\ traza' = SinTraza

\* Lines 489-501: the sidebar's buttons; each ends in st.rerun()
GestionDeDatos ==
    /\ Correr([ss EXCEPT !.pagina_actual = "gestion_datos"], "")
    /\ traza' = SinTraza

CrearCortina ==
    /\ Correr([ss EXCEPT !.editando_index = NoneIdx, !.cortina_a_editar = <<>>,
                         !.pagina_actual = "cotizador"], "")
    /\ traza' = SinTraza

DatosDeLaCotizacion ==
    /\ Correr([ss EXCEPT !.pagina_actual = "datos"], "")
    /\ traza' = SinTraza

VerCotizacion ==
    /\ Correr([ss EXCEPT !.pagina_actual = "resumen"], "")
    /\ traza' = SinTraza

\* Lines 897-901: the gear of curtain i
Seleccionar ==
    /\ ss.pagina_actual = "resumen"
    /\ \E i \in 0..(Len(ss.cortinas_resumen) - 1) :
           Correr([ss EXCEPT !.seleccion_resumen = IF @ = i THEN NoneIdx ELSE i], "")
    /\ traza' = SinTraza

\* Lines 906-910
Editar ==
    /\ ss.pagina_actual = "resumen"
    /\ \E i \in 0..(Len(ss.cortinas_resumen) - 1) :
           /\ ss.seleccion_resumen = i
           /\ Correr([ss EXCEPT !.cortina_a_editar = <<ss.cortinas_resumen[i + 1]>>,
                                !.editando_index = i,
                                !.pagina_actual = "cotizador"], "")
    /\ traza' = SinTraza

\* del cortinas[i]
Quitar(cortinas, i) ==
    SubSeq(cortinas, 1, i) \o SubSeq(cortinas, i + 2, Len(cortinas))

\* Lines 912-915
Eliminar ==
    /\ ss.pagina_actual = "resumen"
    /\ \E i \in 0..(Len(ss.cortinas_resumen) - 1) :
           /\ ss.seleccion_resumen = i
           /\ Correr([ss EXCEPT !.cortinas_resumen = Quitar(@, i),
                                !.sel_alias = IF @ = i THEN NoneIdx
                                              ELSE IF @ > i THEN @ - 1 ELSE @,
                                !.seleccion_resumen = NoneIdx], "")
    /\ traza' = SinTraza

\* Lines 917-920
Duplicar ==
    /\ ss.pagina_actual = "resumen"
    /\ Len(ss.cortinas_resumen) < MaxCortinas
    /\ \E i \in 0..(Len(ss.cortinas_resumen) - 1) :
           /\ ss.seleccion_resumen = i
           /\ Correr([duplicar_cortina(ss, i) EXCEPT !.seleccion_resumen = NoneIdx], "")
    /\ traza' = SinTraza

Next ==
    \/ CambiarDiseno
    \/ CambiarInsumo
    \/ Calcular
    \/ Anadir
    \/ GestionDeDatos
    \/ CrearCortina
    \/ DatosDeLaCotizacion
    \/ VerCotizacion
    \/ Seleccionar
    \/ Editar
    \/ Eliminar
    \/ Duplicar

Spec == Init /\ [][Next]_vars

-----------------------------------------------------------------------------
\* The session with a list of up to MaxCopias curtains: curtains are told
\* apart by their supply selection; the design and the data pages are left alone

\* Lines 670-671, the list kept within MaxCopias
AnadirCopias ==
    /\ EnForma
    /\ ss.cortina_calculada # <<>>
    /\ ss.editando_index = NoneIdx => Len(ss.cortinas_resumen) < MaxCopias
    /\ Correr(ss, "anadir")
    /\ traza' = SinTraza

\* Lines 917-920, the list kept within MaxCopias
DuplicarCopias ==
    /\ ss.pagina_actual = "resumen"
    /\ Len(ss.cortinas_resumen) < MaxCopias
    /\ \E i \in 0..(Len(ss.cortinas_resumen) - 1) :
           /\ ss.seleccion_resumen = i
           /\ Correr([duplicar_cortina(ss, i) EXCEPT !.seleccion_resumen = NoneIdx], "")
    /\ traza' = SinTraza

NextCopias ==
    \/ CambiarInsumo
    \/ Calcular
    \/ AnadirCopias
    \/ CrearCortina
    \/ VerCotizacion
    \/ Seleccionar
    \/ Editar
    \/ Eliminar
    \/ DuplicarCopias

SpecCopias == Init /\ [][NextCopias]_vars

-----------------------------------------------------------------------------
\* The calculation on its own: any first BOM item, any measurements

\* Parametro values load_bom_from_excel can store (param_norm, lines 114-118)
Parametros == {"", "abc", "3", "0.25", "0", "-0.5"}

\* Insumo names with the unit and selection flag their BOM rows carry
Insumos ==
    { <<"TELA 1", "MT", "NO">>, <<"Tela 2", "MT", "NO">>, <<"OJALES", "UND", "SI">>,
      <<"OJALES", "MT", "SI">>, <<"RIEL", "MT", "SI">>, <<"m.o. extra", "MT", "NO">> }

ItemsPosibles ==
    { Item(n[1], n[2], r, p, n[3]) : n \in Insumos, r \in ALLOWED_RULES, p \in Parametros }

InitCalc ==
    /\ \E it \in ItemsPosibles :
           BOM_DICT = [BOM_BASE EXCEPT !.ONDA = <<it>> \o @]
    /\ \E pvp \in {0, 5} :
           PRECIOS_MANO_DE_OBRA =
               (MOKey("M.O:", "ONDA") :> [unidad |-> "MT", pvp |-> pvp]) @@ MO_BASE
    /\ ss = main(init_state, BOM_DICT, PRECIOS_MANO_DE_OBRA, "")
    /\ pantalla = Pantalla(ss)
    /\ traza = SinTraza
    /\ llamada = SinLlamada
    /\ carga = SinCarga

NextCalc ==
    \/ CambiarAncho
    \/ CambiarMultiplicador
    \/ CambiarCantidad
    \/ CambiarTela
    \/ Calcular

SpecCalc == InitCalc /\ [][NextCalc]_vars

-----------------------------------------------------------------------------
\* ceil_to_even on its own: x = n/d over a grid of fractions

Denominadores == {1, 2, 3, 7}

InitCeil ==
    /\ BOM_DICT = BOM_BASE
    /\ PRECIOS_MANO_DE_OBRA = MO_BASE
    /\ ss = main(init_state, BOM_DICT, PRECIOS_MANO_DE_OBRA, "")
    /\ pantalla = Pantalla(ss)
    /\ traza = SinTraza
    /\ carga = SinCarga
    /\ \E n \in (0 - MaxX)..MaxX : \E d \in Denominadores :
           llamada = [x |-> <<n, d>>, r |-> <<>>]

LlamarCeil ==
    /\ llamada.r = <<>>
    /\ llamada' = [llamada EXCEPT !.r = <<ceil_to_even(llamada.x)>>]
    /\ UNCHANGED <<ss, BOM_DICT, PRECIOS_MANO_DE_OBRA, pantalla, traza, carga>>

NextCeil == LlamarCeil

SpecCeil == InitCeil /\ [][NextCeil]_vars

-----------------------------------------------------------------------------
\* The load of the BOM sheet, and the form on the BOM it gives

\* ReglaCantidad cells: the allowed rules in several spellings and others
ReglasCrudas ==
    {"MT_ANCHO_X_MULT", "mt_ancho_x_mult", "FIJO", " fijo ", "UND_OJALES_PAR",
     "por_alto", "nan", ""}

FilasPosibles ==
    { Fila("ONDA", n[1], n[2], r, "", n[3]) :
          n \in {<<"TELA 1", "MT", "NO">>, <<" RIEL", "mt", "si">>}, r \in ReglasCrudas }

\* Sheets of one row and of two rows
HojasPosibles ==
    {<<f>> : f \in FilasPosibles} \cup {<<f, g>> : f \in FilasPosibles, g \in FilasPosibles}

Cargado == carga.estado = "ok"

\* Line 237 and, when the load returns, the run of main() that follows.  When
\* the load stops the script no global is bound and no page is ever run.
CargarYCorrer(filas, s) ==
    /\ carga' = [estado |-> load_bom_from_excel(filas).estado, filas |-> filas]
    /\ BOM_DICT' = load_bom_from_excel(filas).bom_dict
    /\ ss' = IF load_bom_from_excel(filas).estado = "ok"
             THEN main(s, BOM_DICT', PRECIOS_MANO_DE_OBRA, "") ELSE s
    /\ pantalla' = IF load_bom_from_excel(filas).estado = "ok" THEN Pantalla(ss')
                   ELSE [pagina |-> "error", metricas |-> <<>>, pdf |-> <<>>]
    /\ traza' = SinTraza
    /\ UNCHANGED <<PRECIOS_MANO_DE_OBRA, llamada>>

InitCarga ==
    /\ PRECIOS_MANO_DE_OBRA = MO_BASE
    /\ traza = SinTraza
    /\ llamada = SinLlamada
    /\ \E filas \in HojasPosibles :
           /\ carga = [estado |-> load_bom_from_excel(filas).estado, filas |-> filas]
           /\ BOM_DICT = load_bom_from_excel(filas).bom_dict
           /\ ss = IF Cargado THEN main(init_state, BOM_DICT, PRECIOS_MANO_DE_OBRA, "")
                   ELSE init_state
           /\ pantalla = IF Cargado THEN Pantalla(ss)
                         ELSE [pagina |-> "error", metricas |-> <<>>, pdf |-> <<>>]

\* Lines 959-962: "Recargar Datos del Repositorio" clears the caches and reruns
\* the script, which loads the sheet as it is then
Recargar ==
    /\ Cargado
    /\ ss.pagina_actual = "gestion_datos"
    /\ \E filas \in HojasPosibles : CargarYCorrer(filas, ss)

CalcularCargado == Cargado /\ Calcular

CambiarAnchoCargado == Cargado /\ CambiarAncho

GestionDeDatosCargado == Cargado /\ GestionDeDatos

CrearCortinaCargado == Cargado /\ CrearCortina

NextCarga ==
    \/ Recargar
    \/ CalcularCargado
    \/ CambiarAnchoCargado
    \/ GestionDeDatosCargado
    \/ CrearCortinaCargado

SpecCarga == InitCarga /\ [][NextCarga]_vars

-----------------------------------------------------------------------------
\* Properties

\* The curtain and the locals of the calculation the last run made
Hecho == traza.estado = "ok"
Calculada == ss.cortina_calculada[1]

\* The parameter as the specification reads it: the number it denotes, in
\* hundredths, or the default when it denotes none
Numerico(param) == param \in DOMAIN ParseFloat
ValorParam(param, default) == IF Numerico(param) THEN ParseFloat[param] ELSE default

\* The evaluated items of the last calculation that carry rule regla
PasosDe(reglas) ==
    IF traza.estado = "none" THEN {}
    ELSE {i \in DOMAIN traza.pasos : traza.pasos[i].item.ReglaCantidad \in reglas}

\* C1: every calculated curtain stores subtotal + iva = total, in whole pesos.
C1_SubtotalMasIvaEsTotal ==
    ss.cortina_calculada # <<>> =>
        Calculada.subtotal + Calculada.iva = Calculada.total

\* C1 witness: a curtain calculated from a subtotal that is no whole number.
C1_Witness ==
    /\ Hecho
    /\ ss.cortina_calculada = <<traza.cortina>>
    /\ traza.subtotal % Q # 0
    /\ Calculada.iva > 0

\* C2 as claimed: total = round(subtotal), iva = round(total * 0.19 / 1.19)
\* and subtotal = total - iva.
C2_IvaDescontadoDelTotal ==
    Hecho =>
        /\ traza.cortina.total = Round(traza.subtotal, Q)
        /\ traza.cortina.iva =
               Round(traza.cortina.total * IVA_PERCENT, 100 + IVA_PERCENT)
        /\ traza.cortina.subtotal = traza.cortina.total - traza.cortina.iva

\* Sum of the total fields of a list, taken from its last curtain backwards
SumaTotales(cortinas) ==
    LET hasta[n \in 0..Len(cortinas)] ==
            IF n = 0 THEN 0 ELSE hasta[n - 1] + cortinas[n].total
    IN  hasta[Len(cortinas)]

SumaNetos(cortinas) ==
    LET hasta[n \in 0..Len(cortinas)] ==
            IF n = 0 THEN 0 ELSE hasta[n - 1] + cortinas[n].subtotal
    IN  hasta[Len(cortinas)]

SumaIvas(cortinas) ==
    LET hasta[n \in 0..Len(cortinas)] ==
            IF n = 0 THEN 0 ELSE hasta[n - 1] + cortinas[n].iva
    IN  hasta[Len(cortinas)]

\* C3: whenever the summary is on screen, its "Total Cotizacion" metric and the
\* PDF's "Vr. Total" are the exact sum of the listed curtains' totals (0 for
\* the empty list, for which no PDF is made).
C3_TotalEsSumaDeTotales ==
    pantalla.pagina = "resumen" =>
        /\ pantalla.metricas[1].total = SumaTotales(ss.cortinas_resumen)
        /\ (pantalla.pdf # <<>>) = (ss.cortinas_resumen # <<>>)
        /\ pantalla.pdf # <<>> =>
               pantalla.pdf[1].total = SumaTotales(ss.cortinas_resumen)

\* C3 witness: the summary and its PDF show two curtains of different totals.
C3_Witness ==
    /\ pantalla.pagina = "resumen"
    /\ Len(ss.cortinas_resumen) = 2
    /\ ss.cortinas_resumen[1].total # ss.cortinas_resumen[2].total
    /\ pantalla.pdf # <<>>
    /\ pantalla.metricas[1].total > ss.cortinas_resumen[1].total

\* C4 as claimed: on the summary page and in the PDF alike the subtotal is
\* the sum of the curtains' subtotals and the tax the sum of their iva.
C4_SubtotalEIvaSonSumas ==
    pantalla.pagina = "resumen" =>
        /\ pantalla.metricas[1].subtotal = SumaNetos(ss.cortinas_resumen)
        /\ pantalla.metricas[1].iva = SumaIvas(ss.cortinas_resumen)
        /\ pantalla.pdf # <<>> =>
               /\ pantalla.pdf[1].subtotal = pantalla.metricas[1].subtotal
               /\ pantalla.pdf[1].iva = pantalla.metricas[1].iva

\* C5: ceil_to_even(n/d) is even, is at least n/d, and the even number below
\* it is smaller than n/d.
C5_CeilToEven ==
    llamada.r # <<>> =>
        /\ llamada.r[1] % 2 = 0
        /\ llamada.r[1] * llamada.x[2] >= llamada.x[1]
        /\ (llamada.r[1] - 2) * llamada.x[2] < llamada.x[1]

\* C5 witness: a negative x that is no integer and whose ceiling is odd.
C5_Witness ==
    /\ llamada.r # <<>>
    /\ llamada.x[1] < 0
    /\ llamada.x[1] % llamada.x[2] # 0
    /\ llamada.r[1] # Ceil(llamada.x)

\* q is the smallest even integer that is at least a / (10 * paso), paso # 0
MenorParDesde(q, a, paso) ==
    /\ q % 2 = 0
    /\ IF paso > 0
       THEN q * 10 * paso >= a /\ (q - 2) * 10 * paso < a
       ELSE q * 10 * (0 - paso) >= 0 - a /\ (q - 2) * 10 * (0 - paso) < 0 - a

DefaultDe(regla) ==
    IF regla = "UND_OJALES_PAR" THEN DISTANCIA_OJALES_DEF ELSE DISTANCIA_BOTON_DEF

\* C6: every quantity that rule UND_OJALES_PAR or UND_BOTON_PAR yields is a
\* whole even number of units, the smallest even number that is at least
\* ancho * multiplicador / paso, paso being the parameter when it is a number
\* and else 0.14 or 0.20; width 2.0, multiplier 1.8 and no parameter give 26.
C6_OjalesYBotonPar ==
    /\ ReglaCantidad("UND_OJALES_PAR", "", 200, 18).cantidad = 26 * Q
    /\ \A i \in PasosDe({"UND_OJALES_PAR", "UND_BOTON_PAR"}) :
           /\ traza.pasos[i].cantidad % Q = 0
           /\ MenorParDesde(traza.pasos[i].cantidad \div Q,
                  ss.ancho * ss.multiplicador,
                  ValorParam(traza.pasos[i].item.Parametro,
                             DefaultDe(traza.pasos[i].item.ReglaCantidad)))

\* C6 witness: an eyelet item without parameter and a width that 0.14 does
\* not divide into an even count.
C6_Witness ==
    /\ Hecho
    /\ \E i \in PasosDe({"UND_OJALES_PAR"}) :
           /\ traza.pasos[i].item.Parametro = ""
           /\ (traza.pasos[i].cantidad \div Q) * 10 * DISTANCIA_OJALES_DEF
                  > ss.ancho * ss.multiplicador
    /\ \E i \in PasosDe({"UND_BOTON_PAR"}) : Numerico(traza.pasos[i].item.Parametro)

\* C7: the total quantity of a MT_ANCHO_X_MULT item is ancho times the
\* multiplier in the form times the factor (the parameter when it is a number,
\* else 1.0) times the number of curtains; multiplier 2.0, width 1.0,
\* parameter 1.0 and 3 units give 6.0.
C7_MtAnchoPorMult ==
    /\ 3 * ReglaCantidad("MT_ANCHO_X_MULT", "1.0", 100, 20).cantidad = 6 * Q
    /\ \A i \in PasosDe({"MT_ANCHO_X_MULT"}) :
           traza.pasos[i].cantidad_total =
               ss.ancho * ss.multiplicador
                   * ValorParam(traza.pasos[i].item.Parametro, 100) * ss.cantidad

\* C7 witness: a multiplier that is not the design's, several curtains, an
\* item with a numeric factor and one without.
C7_Witness ==
    /\ Hecho
    /\ ss.multiplicador # TABLA_DISENOS[ss.diseno_sel]
    /\ ss.cantidad > 1
    /\ \E i \in PasosDe({"MT_ANCHO_X_MULT"}) : traza.pasos[i].item.Parametro = "0.25"
    /\ \E i \in PasosDe({"MT_ANCHO_X_MULT"}) : traza.pasos[i].item.Parametro = ""

\* C8: the per-unit quantity of a FIJO item is its parameter, 0 when the
\* parameter is no number, whatever the width and the multiplier.
C8_Fijo ==
    \A i \in PasosDe({"FIJO"}) :
        traza.pasos[i].cantidad = 1000 * ValorParam(traza.pasos[i].item.Parametro, 0)

\* C8 witness: FIJO with parameter "3" at a width and a multiplier other than
\* the form's defaults.
C8_Witness ==
    /\ Hecho
    /\ ss.ancho = 125
    /\ ss.multiplicador = 15
    /\ \E i \in PasosDe({"FIJO"}) :
           /\ traza.pasos[i].item.Parametro = "3"
           /\ traza.pasos[i].cantidad = 3 * Q

\* The labor lines of a curtain: those named by a PRECIOS_MANO_DE_OBRA key
LineasMo(c) ==
    {i \in DOMAIN c.detalle_insumos : Len(c.detalle_insumos[i].Insumo) = 2}

PvpMo(diseno) == PRECIOS_MANO_DE_OBRA[MOKey("M.O:", diseno)].pvp

\* C9: a calculated curtain has a labor line exactly when its design's labor
\* price is above zero; then it has one, the last line, priced at the labor
\* price for ancho * multiplicador * cantidad metres (shown to 2 decimals),
\* whatever rules the BOM carries.
C9_LineaDeManoDeObra ==
    Hecho =>
        LET c == traza.cortina
            n == Len(c.detalle_insumos)
        IN  IF PvpMo(c.diseno) > 0
            THEN /\ LineasMo(c) = {n}
                 /\ traza.mo.cant_mo = ss.ancho * ss.multiplicador * ss.cantidad
                 /\ c.detalle_insumos[n].Cantidad =
                        Round(ss.ancho * ss.multiplicador * ss.cantidad, 10)
                 /\ c.detalle_insumos[n].PVP_Unit = PvpMo(c.diseno)
                 /\ c.detalle_insumos[n].Insumo = MOKey("M.O:", c.diseno)
            ELSE LineasMo(c) = {}

\* C9 witness: a priced labor line on a BOM whose labor-marked item carries
\* rule FIJO, for a quantity that has three decimals.
C9_Witness ==
    /\ Hecho
    /\ PvpMo(traza.cortina.diseno) > 0
    /\ LineasMo(traza.cortina) # {}
    /\ (ss.ancho * ss.multiplicador * ss.cantidad) % 10 # 0
    /\ \E i \in PasosDe({"FIJO"}) :
           traza.pasos[i].omitido /\ traza.pasos[i].item.Parametro = "3"

\* The BOM positions of the labor-marked items
ItemsMo(items) ==
    {i \in DOMAIN items : StartsWithMO(Upper(items[i].Insumo))}

\* C10 as claimed: a labor-marked BOM item adds no line and nothing to the
\* subtotal, and whatever its rule and parameter the calculation completes
\* when the rules of the other items can be evaluated.
C10_ItemMoNoSeEvalua ==
    traza.estado # "none" =>
        /\ \A i \in DOMAIN traza.pasos :
               traza.pasos[i].omitido => traza.pasos[i].precio_total = 0
        /\ Hecho => Len(traza.cortina.detalle_insumos) - Cardinality(LineasMo(traza.cortina))
                        = Cardinality(DOMAIN traza.items \ ItemsMo(traza.items))
        /\ (\A i \in DOMAIN traza.items \ ItemsMo(traza.items) :
                ReglaCantidad(traza.items[i].ReglaCantidad, traza.items[i].Parametro,
                              traza.ancho, traza.multiplicador).estado = "ok")
               => traza.estado = "ok"

-----------------------------------------------------------------------------
\* The detail line that the evaluated item i of the last calculation produced
LineaDePaso(i) ==
    traza.cortina.detalle_insumos[Cardinality({j \in 1..i : ~traza.pasos[j].omitido})]

\* The evaluated items that ask for a selection, are neither fabric nor labor,
\* and have no entry in insumos_seleccion
PasosSinSeleccion ==
    IF traza.estado = "none" THEN {}
    ELSE {i \in DOMAIN traza.pasos :
            /\ traza.pasos[i].item.DependeDeSeleccion = "SI"
            /\ Upper(traza.pasos[i].item.Insumo) \notin {"TELA 1", "TELA 2"}
            /\ ~traza.pasos[i].omitido
            /\ traza.pasos[i].item.Insumo \notin DOMAIN ss.insumos_seleccion}

\* The BOM positions whose rule cannot be evaluated at the run's measurements
ItemsSinCantidad ==
    {i \in DOMAIN traza.items :
        ReglaCantidad(traza.items[i].ReglaCantidad, traza.items[i].Parametro,
                      traza.ancho, traza.multiplicador).estado # "ok"}

\* C11: an item that requires a selection and has none in insumos_seleccion is
\* priced at 0: its line shows unit price 0, price 0 and the BOM item's unit,
\* it adds nothing to the subtotal, and a calculation is only ever cut short
\* by a rule that cannot be evaluated, never by the missing selection.
C11_SinSeleccionPrecioCero ==
    /\ Hecho =>
           \A i \in PasosSinSeleccion :
               /\ traza.pasos[i].precio_total = 0
               /\ LineaDePaso(i).PVP_Unit = 0
               /\ LineaDePaso(i).Precio = 0
               /\ LineaDePaso(i).Unidad = traza.pasos[i].item.Unidad
               /\ LineaDePaso(i).Insumo = <<traza.pasos[i].item.Insumo>>
    /\ traza.estado \notin {"none", "ok"} => ItemsSinCantidad # {}

\* C11 witness: a completed calculation with an unselected item of positive
\* quantity next to lines that are priced.
C11_Witness ==
    /\ Hecho
    /\ \E i \in PasosSinSeleccion : traza.pasos[i].cantidad_total > 0
    /\ traza.subtotal > 0

-----------------------------------------------------------------------------
\* The inputs of the form in session s, entered into a session that has just
\* been started: measurements, type, design, multiplier, the fabric of each
\* rendered slot and the option of each rendered supply
SoloEntradas(s) ==
    [init_state EXCEPT
        !.ancho = s.ancho, !.alto = s.alto, !.cantidad = s.cantidad,
        !.multiplicador = s.multiplicador,
        !.tipo_cortina_sel = s.tipo_cortina_sel, !.diseno_sel = s.diseno_sel,
        !.tela_sel = << s.tela_sel[1],
                        IF UsaTela2(BOM_DICT, s.diseno_sel) THEN s.tela_sel[2] ELSE 0 >>,
        !.insumo_w = s.insumo_w]

\* The curtain a just-started session calculates from the inputs of ss
CortinaDeEntradas ==
    Calculo(FormaLista(SoloEntradas(ss), BOM_DICT), BOM_DICT, PRECIOS_MANO_DE_OBRA).cortina

\* The part of C12 that the program keeps: the detail lines, subtotal, tax and
\* total of a calculation are those that the same inputs give in a session
\* without history.
MismasLineasYMontos ==
    Hecho =>
        /\ traza.cortina.detalle_insumos = CortinaDeEntradas.detalle_insumos
        /\ traza.cortina.subtotal = CortinaDeEntradas.subtotal
        /\ traza.cortina.iva = CortinaDeEntradas.iva
        /\ traza.cortina.total = CortinaDeEntradas.total

\* C12 as claimed: a calculation gives the curtain, field by field, that the
\* same inputs give in a session without history, whatever was calculated,
\* added, edited or deleted before; so two calculations with the same inputs
\* give identical curtains.
C12_MismasEntradasMismaCortina ==
    Hecho => traza.cortina = CortinaDeEntradas

-----------------------------------------------------------------------------
\* The rules stored in BOM_DICT
ReglasGuardadas ==
    UNION { {BOM_DICT[d][i].ReglaCantidad : i \in DOMAIN BOM_DICT[d]} : d \in DOMAIN BOM_DICT }

\* C13: the load of a sheet stops, and binds no BOM_DICT, exactly when some
\* row's rule, trimmed and upper-cased, is not one of the four allowed; after a
\* load that returned, every stored rule is one of the four in upper case and
\* no calculation ends at the unsupported-rule stop.
C13_CargaValidaReglas ==
    /\ carga.estado = "stop" <=>
           \E i \in DOMAIN carga.filas :
               StripUpper(carga.filas[i].ReglaCantidad) \notin ALLOWED_RULES
    /\ carga.estado = "stop" => BOM_DICT = <<>>
    /\ Cargado =>
           /\ ReglasGuardadas \subseteq ALLOWED_RULES
           /\ Len(ItemsDe(BOM_DICT, "ONDA")) = Len(carga.filas)
           /\ traza.estado # "stop"

\* C13 witness: a calculation on a BOM loaded from a sheet whose rules are
\* written in lower case and with blanks around them.
C13_Witness ==
    /\ Cargado
    /\ Hecho
    /\ \E i \in DOMAIN carga.filas : carga.filas[i].ReglaCantidad = " fijo "
    /\ \E i \in DOMAIN carga.filas : carga.filas[i].ReglaCantidad = "mt_ancho_x_mult"

\* C13 witness of the failing load: a sheet with an allowed and a foreign rule.
C13_CargaDetenida ==
    /\ carga.estado = "stop"
    /\ \E i \in DOMAIN carga.filas : carga.filas[i].ReglaCantidad \in ALLOWED_RULES

-----------------------------------------------------------------------------
\* Sum of the unrounded products pvp * cantidad_total of the evaluated items
\* of the last calculation, from step k on (1/Q)
RECURSIVE SumaProductos(_)
SumaProductos(k) ==
    IF k > Len(traza.pasos) THEN 0
    ELSE traza.pasos[k].precio_total + SumaProductos(k + 1)

\* The unrounded product of the labor line, 0 when there is none (1/Q)
ProductoMo ==
    IF traza.mo.hay
    THEN (Q \div 1000) * traza.mo.cant_mo * traza.mo.linea[1].PVP_Unit
    ELSE 0

\* C14 as claimed: the subtotal is the sum of the unrounded products of all
\* priced lines, the labor line included, and the total is that sum rounded.
C14_SubtotalSinRedondeos ==
    Hecho =>
        /\ traza.subtotal = SumaProductos(1) + ProductoMo
        /\ traza.cortina.total = Round(SumaProductos(1) + ProductoMo, Q)

-----------------------------------------------------------------------------
\* The unit a line finally shows for the evaluated item i: MT for the fabric
\* slots, the unit of the recorded selection when there is one, else the unit
\* the BOM item declares
UnidadMostrada(i) ==
    IF Upper(traza.pasos[i].item.Insumo) \in {"TELA 1", "TELA 2"} THEN "MT"
    ELSE IF traza.pasos[i].item.Insumo \in DOMAIN ss.insumos_seleccion
    THEN ss.insumos_seleccion[traza.pasos[i].item.Insumo].unidad
    ELSE traza.pasos[i].item.Unidad

\* C15: every detail line shows its quantity (in hundredths) rounded to the
\* nearest whole number when the unit it shows is the count unit UND and to 2
\* decimals otherwise; the labor line, in MT, shows 2 decimals.
C15_CantidadRedondeada ==
    Hecho =>
        /\ \A i \in DOMAIN traza.pasos :
               ~traza.pasos[i].omitido =>
                   /\ LineaDePaso(i).Unidad = UnidadMostrada(i)
                   /\ LineaDePaso(i).Cantidad =
                          IF UnidadMostrada(i) = "UND"
                          THEN 100 * Round(traza.pasos[i].cantidad_total, Q)
                          ELSE Round(traza.pasos[i].cantidad_total, Q \div 100)
        /\ traza.mo.hay =>
               /\ traza.mo.linea[1].Unidad = "MT"
               /\ traza.mo.linea[1].Cantidad = Round(traza.mo.cant_mo, 10)

\* C15 witness: a line in UND by its selection on an item declared in MT, with
\* a quantity that is no whole number; a line in MT with a third decimal; and
\* a labor line with a third decimal.
C15_Witness ==
    /\ Hecho
    /\ \E i \in DOMAIN traza.pasos :
           /\ ~traza.pasos[i].omitido
           /\ traza.pasos[i].item.Unidad = "MT"
           /\ UnidadMostrada(i) = "UND"
           /\ traza.pasos[i].cantidad_total % Q # 0
    /\ \E i \in DOMAIN traza.pasos :
           /\ ~traza.pasos[i].omitido
           /\ UnidadMostrada(i) = "MT"
           /\ traza.pasos[i].cantidad_total % (Q \div 100) # 0
    /\ traza.mo.hay
    /\ traza.mo.cant_mo % 10 # 0

-----------------------------------------------------------------------------
\* The BOM items of the last calculation that are not labor-marked, in order
ItemsNoMo ==
    SelectSeq(traza.items, LAMBDA it : ~StartsWithMO(Upper(it.Insumo)))

\* The name a line starts with for a BOM item that is not labor-marked
NombreDeLinea(it) ==
    IF Upper(it.Insumo) \in {"TELA 1", "TELA 2"} THEN Upper(it.Insumo) ELSE it.Insumo

\* C16: the detail of a calculated curtain has one line for each BOM item of
\* the design that is not labor-marked, in BOM order, then the labor line when
\* the labor price is above zero, and no other line.
C16_UnaLineaPorItem ==
    Hecho =>
        /\ Len(traza.cortina.detalle_insumos) =
               Len(ItemsNoMo) + (IF PvpMo(traza.diseno) > 0 THEN 1 ELSE 0)
        /\ \A k \in DOMAIN ItemsNoMo :
               traza.cortina.detalle_insumos[k].Insumo[1] = NombreDeLinea(ItemsNoMo[k])
        /\ PvpMo(traza.diseno) > 0 =>
               traza.cortina.detalle_insumos[Len(ItemsNoMo) + 1].Insumo =
                   MOKey("M.O:", traza.diseno)

\* C16 witness: a BOM that starts with a labor-marked item and holds two more
\* after it, calculated with and listed before a labor line.
C16_Witness ==
    /\ Hecho
    /\ StartsWithMO(Upper(traza.items[1].Insumo))
    /\ Len(ItemsNoMo) = 2
    /\ Len(traza.items) = 4
    /\ Len(traza.cortina.detalle_insumos) = 3
    /\ traza.cortina.detalle_insumos[1].Insumo[1] # traza.cortina.detalle_insumos[2].Insumo[1]

-----------------------------------------------------------------------------
\* The step is anadir_a_resumen writing the calculated curtain over the curtain
\* at editando_index
ReemplazoPorEdicion ==
    /\ ss.editando_index # NoneIdx
    /\ ss.cortina_calculada # <<>>
    /\ ss'.cortina_calculada = <<>>
    /\ ss'.cortinas_resumen =
           [ss.cortinas_resumen EXCEPT ![ss.editando_index + 1] = ss.cortina_calculada[1]]

\* C17 as claimed: a step changes the listed curtains only by appending one,
\* by removing one, or by replacing the edited one with the calculated
\* curtain; every other step (entering edit mode, changing the design, the
\* measurements or a supply selection) leaves every field of every listed
\* curtain as it was.
C17_CortinaGuardadaInmutable ==
    [][ \/ ss'.cortinas_resumen = ss.cortinas_resumen
        \/ /\ Len(ss'.cortinas_resumen) = Len(ss.cortinas_resumen) + 1
           /\ SubSeq(ss'.cortinas_resumen, 1, Len(ss.cortinas_resumen)) = ss.cortinas_resumen
        \/ \E i \in 0..(Len(ss.cortinas_resumen) - 1) :
               ss'.cortinas_resumen = Quitar(ss.cortinas_resumen, i)
        \/ ReemplazoPorEdicion ]_vars

-----------------------------------------------------------------------------
\* C18 as claimed: whatever the parameter of an item with an allowed rule, the
\* rule yields a quantity and the calculation is not cut short.
C18_ReglaSiempreDaCantidad ==
    traza.estado # "none" =>
        /\ \A i \in DOMAIN traza.items :
               traza.items[i].ReglaCantidad \in ALLOWED_RULES =>
                   ReglaCantidad(traza.items[i].ReglaCantidad, traza.items[i].Parametro,
                                 traza.ancho, traza.multiplicador).estado = "ok"
        /\ traza.estado = "ok"

-----------------------------------------------------------------------------
\* C19 as claimed: a calculated curtain records a second fabric only when the
\* BOM of its design has a TELA 2 item.
C19_Tela2SoloSiElDisenoLaUsa ==
    Hecho =>
        (traza.cortina.telas.tela2 # <<>> => UsaTela2(BOM_DICT, traza.cortina.diseno))

-----------------------------------------------------------------------------
\* A step of the form page, outside edit mode, that clears the pending curtain
\* or lengthens the list: anadir_a_resumen ran on a pending curtain
PasoAnadirSinEdicion ==
    /\ ss.pagina_actual = "cotizador"
    /\ ss.editando_index = NoneIdx
    /\ \/ ss.cortina_calculada # <<>> /\ ss'.cortina_calculada = <<>>
       \/ Len(ss'.cortinas_resumen) > Len(ss.cortinas_resumen)

\* C20: outside edit mode anadir_a_resumen puts the pending curtain at the end
\* of the list, leaving the curtains before it as they were, and clears the
\* pending curtain; without a pending curtain it changes nothing, so the same
\* calculation is not added a second time.
C20_AnadirAgregaAlFinal ==
    /\ [](ss.cortina_calculada = <<>> => anadir_a_resumen(ss) = ss)
    /\ [][ PasoAnadirSinEdicion =>
               /\ ss.cortina_calculada # <<>>
               /\ ss'.cortinas_resumen =
                      Append(ss.cortinas_resumen, ss.cortina_calculada[1])
               /\ ss'.cortina_calculada = <<>>
               /\ anadir_a_resumen(ss') = ss' ]_vars

\* C20 witness: the form after a second, different curtain was added.
C20_Witness ==
    /\ ss.pagina_actual = "cotizador"
    /\ ss.editando_index = NoneIdx
    /\ ss.cortina_calculada = <<>>
    /\ Len(ss.cortinas_resumen) = 2
    /\ ss.cortinas_resumen[1].total # ss.cortinas_resumen[2].total
    /\ ss.cortinas_resumen[2].diseno = ss.diseno_sel

-----------------------------------------------------------------------------
\* The form page is shown in edit mode
FormaEnEdicion == EnForma /\ ss.editando_index # NoneIdx

\* A step of the form page in edit mode in which anadir_a_resumen ran on a
\* pending curtain
PasoAnadirEnEdicion ==
    /\ FormaEnEdicion
    /\ ss.cortina_calculada # <<>>
    /\ ss'.cortina_calculada = <<>>

\* C21: whenever the form page is shown with an edit index set, the index is
\* a position of the quotation list; so anadir_a_resumen in edit mode writes
\* the calculated curtain at that position, leaves the length and every other
\* entry as they were, and clears the edit index.
C21_IndiceDeEdicionValido ==
    /\ [](FormaEnEdicion =>
              /\ 0 <= ss.editando_index
              /\ ss.editando_index < Len(ss.cortinas_resumen))
    /\ [][ PasoAnadirEnEdicion =>
               /\ ss.editando_index + 1 \in DOMAIN ss.cortinas_resumen
               /\ Len(ss'.cortinas_resumen) = Len(ss.cortinas_resumen)
               /\ ss'.cortinas_resumen[ss.editando_index + 1] = ss.cortina_calculada[1]
               /\ \A k \in DOMAIN ss.cortinas_resumen :
                      k # ss.editando_index + 1 =>
                          ss'.cortinas_resumen[k] = ss.cortinas_resumen[k]
               /\ ss'.editando_index = NoneIdx ]_vars

\* C21 witness: the second of two curtains is being edited and a calculation
\* that differs from it and from the first is ready to replace it.
C21_Witness ==
    /\ FormaEnEdicion
    /\ ss.editando_index = 1
    /\ Len(ss.cortinas_resumen) = 2
    /\ ss.cortina_calculada # <<>>
    /\ ss.cortina_calculada[1] # ss.cortinas_resumen[2]
    /\ ss.cortina_calculada[1] # ss.cortinas_resumen[1]

-----------------------------------------------------------------------------
\* The step of the summary's Editar button (lines 906-910)
EntraEnEdicion ==
    /\ ss.pagina_actual = "resumen"
    /\ ss'.pagina_actual = "cotizador"
    /\ ss'.editando_index # NoneIdx

\* C22 as claimed: the curtain written over curtain i in edit mode was
\* calculated after edit mode was entered; so on the form just entered through
\* Editar, before any new calculation, the add button writes nothing into the
\* quotation list.
C22_ReemplazoCalculadoEnEdicion ==
    [][ EntraEnEdicion =>
            main(ss', BOM_DICT, PRECIOS_MANO_DE_OBRA, "anadir").cortinas_resumen
                = ss'.cortinas_resumen ]_vars

-----------------------------------------------------------------------------
\* A step of the summary page that lengthens the list: duplicar_cortina ran
PasoDuplicar ==
    /\ ss.pagina_actual = "resumen"
    /\ Len(ss'.cortinas_resumen) > Len(ss.cortinas_resumen)

\* The positions whose curtain a step changes
Cambiadas ==
    {k \in DOMAIN ss.cortinas_resumen \cap DOMAIN ss'.cortinas_resumen :
        ss'.cortinas_resumen[k] # ss.cortinas_resumen[k]}

\* C23: duplicar_cortina(i) appends at the end a curtain equal in every field
\* to curtain i and leaves the curtains before it as they were; the copy shares
\* nothing with its original, so no later step changes two listed curtains
\* together: an edit-replace or a selection change touches one position at
\* most, and a delete removes one curtain and leaves every other as it was.
C23_DuplicadoIgualEIndependiente ==
    [][ /\ PasoDuplicar =>
               /\ ss.seleccion_resumen + 1 \in DOMAIN ss.cortinas_resumen
               /\ ss'.cortinas_resumen =
                      Append(ss.cortinas_resumen,
                             ss.cortinas_resumen[ss.seleccion_resumen + 1])
        /\ Len(ss'.cortinas_resumen) = Len(ss.cortinas_resumen) =>
               Cardinality(Cambiadas) <= 1
        /\ Len(ss'.cortinas_resumen) < Len(ss.cortinas_resumen) =>
               \E i \in 0..(Len(ss.cortinas_resumen) - 1) :
                   ss'.cortinas_resumen = Quitar(ss.cortinas_resumen, i) ]_vars

\* C23 witness: the summary right after the second of two different curtains
\* was duplicated.
C23_Witness ==
    /\ ss.pagina_actual = "resumen"
    /\ ss.seleccion_resumen = NoneIdx
    /\ Len(ss.cortinas_resumen) = 3
    /\ ss.cortinas_resumen[3] = ss.cortinas_resumen[2]
    /\ ss.cortinas_resumen[1] # ss.cortinas_resumen[2]

====
